---- MODULE Spec2Model ----
\* Model of openchain/ledger/statemgmt/state/state.go: the transactional
\* world-state manager (State) together with the collaborators it drives
\* (statemgmt.StateDelta, statemgmt.HashableState, the db column families and
\* the caller-owned gorocksdb.WriteBatch).
EXTENDS Integers, Sequences, FiniteSets, TLC

\* ---------------------------------------------------------------------------
\* Bounds of the model
\* ---------------------------------------------------------------------------
\* the largest block number staged
MaxBlock == 1

\* historyStateDeltaSize (state.go:36); the window is scaled down from 500
historyStateDeltaSize == 1

ChaincodeIDs == {"cc1"}
Keys == {"k1"}
Values == {"v1", "v2"}
\* "" is the value of currentTxUUID when no transaction is in flight; a
\* caller can pass it like any other string
TxUUIDs == {"", "t1"}
BlockNumbers == 0..MaxBlock

KeySpace == ChaincodeIDs \X Keys
\* a fixed enumeration of KeySpace, the order in which a delta is serialized
KeySeq == << <<"cc1", "k1">> >>

\* ---------------------------------------------------------------------------
\* statemgmt.StateDelta
\* ---------------------------------------------------------------------------
NoEntry == "<no-entry>"
Deleted == "<deleted>"
Nil == "<nil>"
\* a nil hash and a nil *StateDelta
NilHash == <<>>
NilDelta == <<>>

\* a delta maps each (chaincodeID, key) to: no entry, a set value, or a delete
Entries == Values \cup {NoEntry, Deleted}
Deltas == [KeySpace -> Entries]

NewStateDelta == [ck \in KeySpace |-> NoEntry]

IsEmpty(delta) == \A ck \in KeySpace : delta[ck] = NoEntry

\* StateDelta.Get: the value holder of the key, or nil (NoEntry)
DeltaGet(delta, chaincodeID, key) == delta[<<chaincodeID, key>>]

\* valueHolder.GetValue: a delete entry holds no value
GetValue(valueHolder) == IF valueHolder = Deleted THEN Nil ELSE valueHolder

DeltaSet(delta, chaincodeID, key, value) ==
    [delta EXCEPT ![<<chaincodeID, key>>] = value]

DeltaDelete(delta, chaincodeID, key) ==
    [delta EXCEPT ![<<chaincodeID, key>>] = Deleted]

\* StateDelta.ApplyChanges: every entry of the other delta overrides
ApplyChanges(delta, other) ==
    [ck \in KeySpace |-> IF other[ck] # NoEntry THEN other[ck] ELSE delta[ck]]

\* StateDelta.ComputeCryptoHash: a collision-free digest of the content
DeltaCryptoHash(delta) == <<"delta-hash", delta>>

\* StateDelta.Marshal: the present entries, in key order
Marshal(delta) ==
    LET present == SelectSeq(KeySeq, LAMBDA ck : delta[ck] # NoEntry)
    IN  [i \in 1..Len(present) |->
            <<present[i][1], present[i][2], delta[present[i]]>>]

\* StateDelta.Unmarshal
Unmarshal(bytes) ==
    [ck \in KeySpace |->
        IF \E i \in 1..Len(bytes) : <<bytes[i][1], bytes[i][2]>> = ck
        THEN LET i == CHOOSE j \in 1..Len(bytes) :
                          <<bytes[j][1], bytes[j][2]>> = ck
             IN  bytes[i][3]
        ELSE NoEntry]

\* ---------------------------------------------------------------------------
\* history keys (state.go:234-250)
\* ---------------------------------------------------------------------------
RECURSIVE ShiftRight8(_, _)
ShiftRight8(number, times) ==
    IF times = 0 THEN number ELSE ShiftRight8(number \div 256, times - 1)

\* binary.BigEndian.PutUint64 into 8 bytes
encodeUint64(number) == [i \in 1..8 |-> ShiftRight8(number, 8 - i) % 256]

RECURSIVE FoldBigEndian(_, _, _)
FoldBigEndian(bytes, i, acc) ==
    IF i > Len(bytes) THEN acc
    ELSE FoldBigEndian(bytes, i + 1, acc * 256 + bytes[i])

decodeToUint64(bytes) == FoldBigEndian(bytes, 1, 0)

encodeStateDeltaKey(blockNumber) == encodeUint64(blockNumber)

decodeStateDeltaKey(dbkey) == decodeToUint64(dbkey)

\* ---------------------------------------------------------------------------
\* State
\* ---------------------------------------------------------------------------
VARIABLES
    stateDelta,           \* State.stateDelta: the aggregate delta
    currentTxStateDelta,  \* State.currentTxStateDelta
    currentTxUUID,        \* State.currentTxUUID, "" when no tx is in flight
    txStateDeltaHash,     \* State.txStateDeltaHash: map txUUID -> hash or nil
    updateStateImpl,      \* State.updateStateImpl: the dirty flag
    workingSet,           \* stateImpl: the delta last given to PrepareWorkingSet
    stateCF,              \* db: the persisted state entries
    stateDeltaCF,         \* db: the history log, encoded block number -> bytes
    writeBatch,           \* the caller's pending gorocksdb.WriteBatch
    staged,               \* history: the last block staged into writeBatch
    txSnapshot,           \* history: what was observable at TxBegin, while only
                          \* Set, Delete and TxFinish have followed
    lastHash,             \* history: the last GetHash call, if no write followed it
    lastOp,               \* history: the last call, its inputs and its outcome
    aborted               \* the process has panicked

mgrVars == <<stateDelta, currentTxStateDelta, currentTxUUID, txStateDeltaHash,
             updateStateImpl>>
storeVars == <<workingSet, stateCF, stateDeltaCF>>
histVars == <<staged, txSnapshot, lastHash>>
vars == <<stateDelta, currentTxStateDelta, currentTxUUID, txStateDeltaHash,
          updateStateImpl, workingSet, stateCF, stateDeltaCF, writeBatch,
          staged, txSnapshot, lastHash, lastOp, aborted>>

NoStaging == [blockNumber |-> -1]
NoSnapshot == [valid |-> FALSE]
NoHash == [valid |-> FALSE]

\* ---------------------------------------------------------------------------
\* statemgmt.HashableState (stateImpl) and the db
\* ---------------------------------------------------------------------------
\* the persisted entries once a delta's sets and deletes are written
Overlay(persisted, delta) ==
    [ck \in KeySpace |->
        IF delta[ck] = NoEntry THEN persisted[ck] ELSE GetValue(delta[ck])]

\* stateImpl.Get: the persisted value, nil when there is none
StateImplGet(chaincodeID, key) == stateCF[<<chaincodeID, key>>]

\* stateImpl.PrepareWorkingSet: the delta becomes the working set
PrepareWorkingSet(delta) == delta

\* stateImpl.ClearWorkingSet
ClearWorkingSet == NewStateDelta

\* stateImpl.ComputeCryptoHash: the root hash of the persisted state with
\* the working set applied
RootHash(persisted, delta) == <<"root-hash", Overlay(persisted, delta)>>

\* stateImpl.AddChangesForPersistence: the working set's sets and deletes
StateImplChanges(delta) == <<[op |-> "PutState", delta |-> delta]>>

\* the effect of one batch operation on the column families
ApplyOp(cfs, op) ==
    IF op.op = "PutState"
    THEN [cfs EXCEPT !.state = Overlay(cfs.state, op.delta)]
    ELSE IF op.op = "PutDelta"
    THEN [cfs EXCEPT !.deltas =
            [k \in DOMAIN cfs.deltas \cup {op.key} |->
                IF k = op.key THEN op.value ELSE cfs.deltas[k]]]
    ELSE [cfs EXCEPT !.deltas =
            [k \in DOMAIN cfs.deltas \ {op.key} |-> cfs.deltas[k]]]

RECURSIVE ApplyBatch(_, _, _)
ApplyBatch(cfs, batch, i) ==
    IF i > Len(batch) THEN cfs
    ELSE ApplyBatch(ApplyOp(cfs, batch[i]), batch, i + 1)

\* DB.Write: all operations of the batch, in order, in one atomic write
DBWrite(batch) ==
    ApplyBatch([state |-> stateCF, deltas |-> stateDeltaCF], batch, 1)

\* ---------------------------------------------------------------------------
\* reads
\* ---------------------------------------------------------------------------
txInProgress == currentTxUUID # ""

\* Get that looks in memory whatever committed says
GetIgnoringCommitted(chaincodeID, key, committed, dbErr) ==
    LET txHolder == DeltaGet(currentTxStateDelta, chaincodeID, key)
        aggHolder == DeltaGet(stateDelta, chaincodeID, key)
    IN  IF txHolder # NoEntry
        THEN [value |-> GetValue(txHolder), err |-> FALSE]
        ELSE IF aggHolder # NoEntry
        THEN [value |-> GetValue(aggHolder), err |-> FALSE]
        ELSE IF dbErr THEN [value |-> Nil, err |-> TRUE]
        ELSE [value |-> StateImplGet(chaincodeID, key), err |-> FALSE]

\* Get that looks in the aggregate delta before the current transaction's
GetAggregateFirst(chaincodeID, key, committed, dbErr) ==
    LET txHolder == DeltaGet(currentTxStateDelta, chaincodeID, key)
        aggHolder == DeltaGet(stateDelta, chaincodeID, key)
    IN  IF ~committed /\ aggHolder # NoEntry
        THEN [value |-> GetValue(aggHolder), err |-> FALSE]
        ELSE IF ~committed /\ txHolder # NoEntry
        THEN [value |-> GetValue(txHolder), err |-> FALSE]
        ELSE IF dbErr THEN [value |-> Nil, err |-> TRUE]
        ELSE [value |-> StateImplGet(chaincodeID, key), err |-> FALSE]

\* State.Get; dbErr is the outcome of the store's read when it is reached
Get(chaincodeID, key, committed, dbErr) ==
    LET txHolder == DeltaGet(currentTxStateDelta, chaincodeID, key)
        aggHolder == DeltaGet(stateDelta, chaincodeID, key)
    IN  IF ~committed /\ txHolder # NoEntry
        THEN [value |-> GetValue(txHolder), err |-> FALSE]
        ELSE IF ~committed /\ aggHolder # NoEntry
        THEN [value |-> GetValue(aggHolder), err |-> FALSE]
        ELSE IF dbErr THEN [value |-> Nil, err |-> TRUE]
        ELSE [value |-> StateImplGet(chaincodeID, key), err |-> FALSE]

GetTxStateDeltaHash == txStateDeltaHash

\* State.FetchStateDeltaFromDB: a nil delta when the log has no entry
FetchStateDeltaFromDB(blockNumber, dbErr) ==
    LET dbkey == encodeStateDeltaKey(blockNumber)
    IN  IF dbErr THEN [delta |-> NilDelta, err |-> TRUE]
        ELSE IF dbkey \notin DOMAIN stateDeltaCF
        THEN [delta |-> NilDelta, err |-> FALSE]
        ELSE [delta |-> Unmarshal(stateDeltaCF[dbkey]), err |-> FALSE]

\* what a caller reads of the uncommitted state, key by key
Observe ==
    [ck \in KeySpace |-> Get(ck[1], ck[2], FALSE, FALSE).value]

\* ---------------------------------------------------------------------------
\* Init: NewState over an empty database
\* ---------------------------------------------------------------------------
Init ==
    /\ stateDelta = NewStateDelta
    /\ currentTxStateDelta = NewStateDelta
    /\ currentTxUUID = ""
    /\ txStateDeltaHash = <<>>
    /\ updateStateImpl = FALSE
    /\ workingSet = NewStateDelta
    /\ stateCF = [ck \in KeySpace |-> Nil]
    /\ stateDeltaCF = <<>>
    /\ writeBatch = <<>>
    /\ staged = NoStaging
    /\ txSnapshot = NoSnapshot
    /\ lastHash = NoHash
    /\ lastOp = [name |-> "NewState", outcome |-> "ok"]
    /\ aborted = FALSE

\* panic: the call does not return and the process stops
Panic(name) ==
    /\ aborted' = TRUE
    /\ lastOp' = [name |-> name, outcome |-> "panic"]
    /\ UNCHANGED <<mgrVars, storeVars, writeBatch, histVars>>

\* ---------------------------------------------------------------------------
\* transaction scope
\* ---------------------------------------------------------------------------
TxBegin(txUUID) ==
    /\ ~aborted
    /\ IF txInProgress
       THEN Panic("TxBegin")
       ELSE /\ currentTxUUID' = txUUID
            /\ txSnapshot' = [valid |-> TRUE,
                              observed |-> Observe,
                              stateDelta |-> stateDelta,
                              txStateDeltaHash |-> txStateDeltaHash,
                              updateStateImpl |-> updateStateImpl]
            /\ lastOp' = [name |-> "TxBegin", outcome |-> "ok"]
            /\ UNCHANGED <<stateDelta, currentTxStateDelta, txStateDeltaHash,
                           updateStateImpl, storeVars, writeBatch, staged,
                           lastHash, aborted>>

\* a TxFinish that merges nothing
FinishedStateDeltaUnmerged(txSuccessful) == stateDelta

\* a TxFinish that merges whatever txSuccessful says
FinishedStateDeltaMerged(txSuccessful) ==
    ApplyChanges(stateDelta, currentTxStateDelta)

\* the aggregate delta TxFinish leaves (state.go:76-85)
FinishedStateDelta(txSuccessful) ==
    IF txSuccessful /\ ~IsEmpty(currentTxStateDelta)
    THEN ApplyChanges(stateDelta, currentTxStateDelta)
    ELSE stateDelta

\* the map entry TxFinish records for a successful transaction
FinishedTxHash ==
    IF ~IsEmpty(currentTxStateDelta)
    THEN DeltaCryptoHash(currentTxStateDelta)
    ELSE NilHash

TxFinish(txUUID, txSuccessful) ==
    /\ ~aborted
    /\ IF currentTxUUID # txUUID
       THEN Panic("TxFinish")
       ELSE /\ stateDelta' = FinishedStateDelta(txSuccessful)
            /\ IF txSuccessful
               THEN txStateDeltaHash' =
                        [t \in DOMAIN txStateDeltaHash \cup {txUUID} |->
                            IF t = txUUID THEN FinishedTxHash
                            ELSE txStateDeltaHash[t]]
               ELSE UNCHANGED txStateDeltaHash
            /\ IF txSuccessful /\ ~IsEmpty(currentTxStateDelta)
               THEN /\ updateStateImpl' = TRUE
                    /\ lastHash' = NoHash
               ELSE UNCHANGED <<updateStateImpl, lastHash>>
            /\ currentTxStateDelta' = NewStateDelta
            /\ currentTxUUID' = ""
            /\ lastOp' = [name |-> "TxFinish",
                          outcome |-> IF ~txSuccessful THEN "discarded"
                                      ELSE IF IsEmpty(currentTxStateDelta)
                                      THEN "no-op" ELSE "merged",
                          txUUID |-> txUUID,
                          delta |-> currentTxStateDelta]
            /\ txSnapshot' = IF lastOp.name \in {"TxBegin", "Set", "Delete"}
                              THEN txSnapshot ELSE NoSnapshot
            /\ UNCHANGED <<storeVars, writeBatch, staged, aborted>>

\* a Set that writes into the aggregate delta
SetIntoAggregate(chaincodeID, key, value) ==
    /\ ~aborted
    /\ IF ~txInProgress
       THEN Panic("Set")
       ELSE /\ stateDelta' = DeltaSet(stateDelta, chaincodeID, key, value)
            /\ lastOp' = [name |-> "Set", outcome |-> "ok"]
            /\ UNCHANGED <<currentTxStateDelta, currentTxUUID,
                           txStateDeltaHash, updateStateImpl, storeVars,
                           writeBatch, histVars, aborted>>

\* a Set that does not ask whether a transaction is in flight
SetOutsideTx(chaincodeID, key, value) ==
    /\ ~aborted
    /\ currentTxStateDelta' =
            DeltaSet(currentTxStateDelta, chaincodeID, key, value)
    /\ lastOp' = [name |-> "Set", outcome |-> "ok"]
    /\ UNCHANGED <<stateDelta, currentTxUUID, txStateDeltaHash,
                   updateStateImpl, storeVars, writeBatch, histVars,
                   aborted>>

Set(chaincodeID, key, value) ==
    /\ ~aborted
    /\ IF ~txInProgress
       THEN Panic("Set")
       ELSE /\ currentTxStateDelta' =
                    DeltaSet(currentTxStateDelta, chaincodeID, key, value)
            /\ lastOp' = [name |-> "Set", outcome |-> "ok"]
            /\ UNCHANGED <<stateDelta, currentTxUUID, txStateDeltaHash,
                           updateStateImpl, storeVars, writeBatch, histVars,
                           aborted>>

Delete(chaincodeID, key) ==
    /\ ~aborted
    /\ IF ~txInProgress
       THEN Panic("Delete")
       ELSE /\ currentTxStateDelta' =
                    DeltaDelete(currentTxStateDelta, chaincodeID, key)
            /\ lastOp' = [name |-> "Delete", outcome |-> "ok"]
            /\ UNCHANGED <<stateDelta, currentTxUUID, txStateDeltaHash,
                           updateStateImpl, storeVars, writeBatch, histVars,
                           aborted>>

\* ---------------------------------------------------------------------------
\* hashing
\* ---------------------------------------------------------------------------
\* a GetHash that prepares the working set but leaves the flag set
GetHashPrepareKeepingFlag ==
    IF updateStateImpl
    THEN /\ workingSet' = PrepareWorkingSet(stateDelta)
         /\ UNCHANGED updateStateImpl
    ELSE UNCHANGED <<workingSet, updateStateImpl>>

\* GetHash pushes the aggregate delta only when the flag is set
\* (state.go:134-138)
GetHashPrepare ==
    IF updateStateImpl
    THEN /\ workingSet' = PrepareWorkingSet(stateDelta)
         /\ updateStateImpl' = FALSE
    ELSE UNCHANGED <<workingSet, updateStateImpl>>

\* hashErr is the outcome of stateImpl.ComputeCryptoHash
GetHash(hashErr) ==
    /\ ~aborted
    /\ GetHashPrepare
    /\ LET call == [valid |-> TRUE,
                    hash |-> IF hashErr THEN NilHash
                             ELSE RootHash(stateCF, workingSet'),
                    err |-> hashErr,
                    prepared |-> updateStateImpl]
       IN  /\ lastHash' = call
           /\ lastOp' = [name |-> "GetHash",
                         outcome |-> IF hashErr THEN "error" ELSE "ok",
                         call |-> call,
                         previous |-> lastHash]
    /\ txSnapshot' = NoSnapshot
    /\ UNCHANGED <<stateDelta, currentTxStateDelta, currentTxUUID,
                   txStateDeltaHash, stateCF, stateDeltaCF, writeBatch,
                   staged, aborted>>

\* ---------------------------------------------------------------------------
\* clearing
\* ---------------------------------------------------------------------------
ClearInMemoryChanges ==
    /\ ~aborted
    /\ stateDelta' = NewStateDelta
    /\ txStateDeltaHash' = <<>>
    /\ workingSet' = ClearWorkingSet
    /\ lastHash' = NoHash
    /\ txSnapshot' = NoSnapshot
    /\ lastOp' = [name |-> "ClearInMemoryChanges", outcome |-> "ok"]
    /\ UNCHANGED <<currentTxStateDelta, currentTxUUID, updateStateImpl,
                   stateCF, stateDeltaCF, writeBatch, staged, aborted>>

\* ---------------------------------------------------------------------------
\* persistence
\* ---------------------------------------------------------------------------
\* history operations whose deletion names the block being staged
HistoryChangesDeletingStaged(blockNumber, delta) ==
    <<[op |-> "PutDelta", key |-> encodeStateDeltaKey(blockNumber),
       value |-> Marshal(delta)]>>
    \o (IF blockNumber >= historyStateDeltaSize
        THEN <<[op |-> "DelDelta", key |-> encodeStateDeltaKey(blockNumber)]>>
        ELSE <<>>)

\* history operations whose window test is strict
HistoryChangesStrictWindow(blockNumber, delta) ==
    <<[op |-> "PutDelta", key |-> encodeStateDeltaKey(blockNumber),
       value |-> Marshal(delta)]>>
    \o (IF blockNumber > historyStateDeltaSize
        THEN <<[op |-> "DelDelta",
                key |-> encodeStateDeltaKey(
                            blockNumber - historyStateDeltaSize)]>>
        ELSE <<>>)

\* history operations that never delete
HistoryChangesKeepingAll(blockNumber, delta) ==
    <<[op |-> "PutDelta", key |-> encodeStateDeltaKey(blockNumber),
       value |-> Marshal(delta)]>>

\* the history operations staged for a block (state.go:193-204)
HistoryChanges(blockNumber, delta) ==
    <<[op |-> "PutDelta", key |-> encodeStateDeltaKey(blockNumber),
       value |-> Marshal(delta)]>>
    \o (IF blockNumber >= historyStateDeltaSize
        THEN <<[op |-> "DelDelta",
                key |-> encodeStateDeltaKey(
                            blockNumber - historyStateDeltaSize)]>>
        ELSE <<>>)

\* an AddChangesForPersistence that pushes the current transaction's writes
\* with the aggregate delta
PersistencePrepareWithCurrentTx ==
    IF updateStateImpl
    THEN /\ workingSet' = PrepareWorkingSet(
                            ApplyChanges(stateDelta, currentTxStateDelta))
         /\ updateStateImpl' = FALSE
    ELSE UNCHANGED <<workingSet, updateStateImpl>>

\* AddChangesForPersistence pushes the aggregate delta only when the flag is
\* set (state.go:187-190)
PersistencePrepare ==
    IF updateStateImpl
    THEN /\ workingSet' = PrepareWorkingSet(stateDelta)
         /\ updateStateImpl' = FALSE
    ELSE UNCHANGED <<workingSet, updateStateImpl>>

\* what AddChangesForPersistence must leave alone
Durable ==
    [stateCF |-> stateCF, stateDeltaCF |-> stateDeltaCF,
     stateDelta |-> stateDelta, txStateDeltaHash |-> txStateDeltaHash]

\* an AddChangesForPersistence that writes the staged operations through
AddChangesForPersistenceWritingThrough(blockNumber, batch) ==
    /\ ~aborted
    /\ PersistencePrepare
    /\ LET ops == StateImplChanges(workingSet')
                  \o HistoryChanges(blockNumber, stateDelta)
           cfs == DBWrite(ops)
       IN  /\ writeBatch' = batch \o ops
           /\ stateCF' = cfs.state
           /\ stateDeltaCF' = cfs.deltas
           /\ lastOp' = [name |-> "AddChangesForPersistence",
                         outcome |-> "ok",
                         blockNumber |-> blockNumber,
                         ops |-> ops,
                         before |-> Durable]
    /\ staged' = [blockNumber |-> blockNumber, stateDelta |-> stateDelta]
    /\ txSnapshot' = NoSnapshot
    /\ UNCHANGED <<stateDelta, currentTxStateDelta, currentTxUUID,
                   txStateDeltaHash, lastHash, aborted>>

\* batch is the write batch the caller supplies
AddChangesForPersistence(blockNumber, batch) ==
    /\ ~aborted
    /\ PersistencePrepare
    /\ LET ops == StateImplChanges(workingSet')
                  \o HistoryChanges(blockNumber, stateDelta)
       IN  /\ writeBatch' = batch \o ops
           /\ lastOp' = [name |-> "AddChangesForPersistence",
                         outcome |-> "ok",
                         blockNumber |-> blockNumber,
                         ops |-> ops,
                         before |-> Durable]
    /\ staged' = [blockNumber |-> blockNumber, stateDelta |-> stateDelta]
    /\ txSnapshot' = NoSnapshot
    /\ UNCHANGED <<stateDelta, currentTxStateDelta, currentTxUUID,
                   txStateDeltaHash, stateCF, stateDeltaCF, lastHash,
                   aborted>>

\* gorocksdb.NewWriteBatch: the caller stages each block into a batch of its own
NewWriteBatch == <<>>

\* the caller commits its pending batch: one atomic DB.Write
CommitBatch ==
    /\ ~aborted
    /\ writeBatch # <<>>
    /\ LET cfs == DBWrite(writeBatch)
       IN  /\ stateCF' = cfs.state
           /\ stateDeltaCF' = cfs.deltas
           /\ lastOp' = [name |-> "CommitBatch", outcome |-> "ok",
                         staged |-> staged,
                         batch |-> writeBatch,
                         before |-> Durable,
                         removed |-> DOMAIN stateDeltaCF \ DOMAIN cfs.deltas]
    /\ writeBatch' = <<>>
    /\ staged' = NoStaging
    /\ lastHash' = NoHash
    /\ txSnapshot' = NoSnapshot
    /\ UNCHANGED <<mgrVars, workingSet, aborted>>

\* writeErr is the outcome of DB.Write
ApplyStateDelta(delta, writeErr) ==
    /\ ~aborted
    /\ workingSet' = PrepareWorkingSet(delta)
    /\ LET cfs == DBWrite(StateImplChanges(workingSet'))
       IN  IF writeErr
           THEN UNCHANGED <<stateCF, stateDeltaCF>>
           ELSE /\ stateCF' = cfs.state
                /\ stateDeltaCF' = cfs.deltas
    /\ lastHash' = NoHash
    /\ txSnapshot' = NoSnapshot
    /\ lastOp' = [name |-> "ApplyStateDelta",
                  outcome |-> IF writeErr THEN "error" ELSE "ok"]
    /\ UNCHANGED <<mgrVars, writeBatch, staged, aborted>>

\* db.DeleteState: every persisted state entry is deleted
DBDeleteState == [ck \in KeySpace |-> Nil]

\* deleteErr is the outcome of db.DeleteState
DeleteState(deleteErr) ==
    /\ ~aborted
    /\ stateDelta' = NewStateDelta
    /\ txStateDeltaHash' = <<>>
    /\ workingSet' = ClearWorkingSet
    /\ IF deleteErr
       THEN UNCHANGED stateCF
       ELSE stateCF' = DBDeleteState
    /\ lastHash' = NoHash
    /\ txSnapshot' = NoSnapshot
    /\ lastOp' = [name |-> "DeleteState",
                  outcome |-> IF deleteErr THEN "error" ELSE "ok"]
    /\ UNCHANGED <<currentTxStateDelta, currentTxUUID, updateStateImpl,
                   stateDeltaCF, writeBatch, staged, aborted>>

\* ---------------------------------------------------------------------------
\* specifications
\* ---------------------------------------------------------------------------
\* every operation, on every input
Next ==
    \/ \E txUUID \in TxUUIDs : TxBegin(txUUID)
    \/ \E txUUID \in TxUUIDs, txSuccessful \in BOOLEAN :
            TxFinish(txUUID, txSuccessful)
    \/ \E ck \in KeySpace, value \in Values : Set(ck[1], ck[2], value)
    \/ \E ck \in KeySpace : Delete(ck[1], ck[2])
    \/ \E hashErr \in BOOLEAN : GetHash(hashErr)
    \/ ClearInMemoryChanges
    \/ \E blockNumber \in BlockNumbers, batch \in {NewWriteBatch} :
            AddChangesForPersistence(blockNumber, batch)
    \/ CommitBatch
    \/ \E delta \in Deltas, writeErr \in BOOLEAN :
            ApplyStateDelta(delta, writeErr)
    \/ \E deleteErr \in BOOLEAN : DeleteState(deleteErr)

Spec == Init /\ [][Next]_vars

\* the manager in memory and the state-transfer path: every operation but
\* the staging and commit of blocks
NextTx ==
    \/ \E txUUID \in TxUUIDs : TxBegin(txUUID)
    \/ \E txUUID \in TxUUIDs, txSuccessful \in BOOLEAN :
            TxFinish(txUUID, txSuccessful)
    \/ \E ck \in KeySpace, value \in Values : Set(ck[1], ck[2], value)
    \/ \E ck \in KeySpace : Delete(ck[1], ck[2])
    \/ \E hashErr \in BOOLEAN : GetHash(hashErr)
    \/ ClearInMemoryChanges
    \/ \E delta \in Deltas, writeErr \in BOOLEAN :
            ApplyStateDelta(delta, writeErr)
    \/ \E deleteErr \in BOOLEAN : DeleteState(deleteErr)

SpecTx == Init /\ [][NextTx]_vars

\* the block-commit pipeline: transactions of one id writing "v1" or
\* deleting, the staging of a block, the commit of its batch and clearing
PipelineTxUUIDs == {"t1"}
PipelineValues == {"v1"}

NextPersist ==
    \/ \E txUUID \in PipelineTxUUIDs : TxBegin(txUUID)
    \/ \E txUUID \in PipelineTxUUIDs, txSuccessful \in BOOLEAN :
            TxFinish(txUUID, txSuccessful)
    \/ \E ck \in KeySpace, value \in PipelineValues :
            Set(ck[1], ck[2], value)
    \/ \E ck \in KeySpace : Delete(ck[1], ck[2])
    \/ ClearInMemoryChanges
    \/ \E blockNumber \in BlockNumbers, batch \in {NewWriteBatch} :
            AddChangesForPersistence(blockNumber, batch)
    \/ CommitBatch

SpecPersist == Init /\ [][NextPersist]_vars

\* a state transfer followed by the block-commit pipeline: the transferred
\* delta sets "v2", the transactions of the blocks write "v1" or delete
SyncDeltas == {[ck \in KeySpace |-> "v2"]}

NextSync ==
    \/ \E delta \in SyncDeltas, writeErr \in BOOLEAN :
            ApplyStateDelta(delta, writeErr)
    \/ \E txUUID \in PipelineTxUUIDs : TxBegin(txUUID)
    \/ \E txUUID \in PipelineTxUUIDs, txSuccessful \in BOOLEAN :
            TxFinish(txUUID, txSuccessful)
    \/ \E ck \in KeySpace, value \in PipelineValues :
            Set(ck[1], ck[2], value)
    \/ \E ck \in KeySpace : Delete(ck[1], ck[2])
    \/ ClearInMemoryChanges
    \/ \E blockNumber \in BlockNumbers, batch \in {NewWriteBatch} :
            AddChangesForPersistence(blockNumber, batch)
    \/ CommitBatch

SpecSync == Init /\ [][NextSync]_vars

\* the value that only transactions the caller ends as failed, or never
\* ends, write
UnmergedValue == "v2"

Unmerged(delta) == \E ck \in KeySpace : delta[ck] = UnmergedValue

\* the block under assembly
ScopeBlocks == {MaxBlock}

\* hashing and staging while transactions run: a transaction that has written
\* UnmergedValue is never finished as successful
NextScope ==
    \/ \E txUUID \in PipelineTxUUIDs : TxBegin(txUUID)
    \/ \E txUUID \in PipelineTxUUIDs, txSuccessful \in BOOLEAN :
            /\ txSuccessful => ~Unmerged(currentTxStateDelta)
            /\ TxFinish(txUUID, txSuccessful)
    \/ \E ck \in KeySpace, value \in Values : Set(ck[1], ck[2], value)
    \/ \E ck \in KeySpace : Delete(ck[1], ck[2])
    \/ \E hashErr \in BOOLEAN : GetHash(hashErr)
    \/ ClearInMemoryChanges
    \/ \E blockNumber \in ScopeBlocks, batch \in {NewWriteBatch} :
            AddChangesForPersistence(blockNumber, batch)
    \/ CommitBatch

SpecScope == Init /\ [][NextScope]_vars

\* ---------------------------------------------------------------------------
\* properties
\* ---------------------------------------------------------------------------
K1 == <<"cc1", "k1">>

\* C1: right after a TxFinish with txSuccessful = TRUE, Get with
\* committed = FALSE returns, for every key the transaction wrote, the value
\* of its last write (nil for a delete), never an error, and the
\* transaction's id is a key of GetTxStateDeltaHash
ReadYourOwnWrites ==
    (lastOp.name = "TxFinish" /\ lastOp.outcome \in {"merged", "no-op"}) =>
        /\ \A ck \in KeySpace, dbErr \in BOOLEAN :
                lastOp.delta[ck] # NoEntry =>
                    Get(ck[1], ck[2], FALSE, dbErr) =
                        [value |-> GetValue(lastOp.delta[ck]), err |-> FALSE]
        /\ lastOp.txUUID \in DOMAIN GetTxStateDeltaHash

\* a successful transaction deleted a key whose persisted value is "v1"
ReadYourOwnWritesWitness ==
    /\ lastOp.name = "TxFinish"
    /\ lastOp.outcome = "merged"
    /\ lastOp.delta[K1] = Deleted
    /\ stateCF[K1] = "v1"
    /\ Get("cc1", "k1", FALSE, FALSE).value = Nil
    /\ lastOp.txUUID \in DOMAIN GetTxStateDeltaHash

\* C2: right after a TxFinish with txSuccessful = FALSE that ends a
\* transaction of Set and Delete calls, every uncommitted read returns what it
\* returned at TxBegin, and the aggregate delta, the tx-delta-hash map and the
\* dirty flag are what they were at TxBegin
DiscardedTxLeavesNoTrace ==
    (lastOp.name = "TxFinish" /\ lastOp.outcome = "discarded"
        /\ txSnapshot.valid) =>
        /\ Observe = txSnapshot.observed
        /\ stateDelta = txSnapshot.stateDelta
        /\ txStateDeltaHash = txSnapshot.txStateDeltaHash
        /\ updateStateImpl = txSnapshot.updateStateImpl

\* a failed transaction had written "v1" over a key that read "v2"
DiscardedTxLeavesNoTraceWitness ==
    /\ lastOp.name = "TxFinish"
    /\ lastOp.outcome = "discarded"
    /\ txSnapshot.valid
    /\ lastOp.delta[K1] = "v1"
    /\ txSnapshot.observed[K1] = "v2"
    /\ Observe[K1] = "v2"

\* C3: a GetHash that follows another GetHash with no write in between
\* (no merging TxFinish, no clear, no state transfer) returns the same hash,
\* and the two calls do not both prepare the working set
GetHashIdempotent ==
    (lastOp.name = "GetHash" /\ lastOp.previous.valid) =>
        /\ ~(lastOp.previous.prepared /\ lastOp.call.prepared)
        /\ (~lastOp.previous.err /\ ~lastOp.call.err) =>
                lastOp.call.hash = lastOp.previous.hash

\* two successful GetHash calls in a row over a non-empty aggregate delta,
\* the first of which prepared the working set
GetHashIdempotentWitness ==
    /\ lastOp.name = "GetHash"
    /\ lastOp.outcome = "ok"
    /\ lastOp.previous.valid
    /\ ~lastOp.previous.err
    /\ lastOp.previous.prepared
    /\ ~IsEmpty(stateDelta)
    /\ txInProgress

\* C4: a GetHash that succeeds returns the root hash of the persisted state
\* with the current aggregate delta applied, the working set being the
\* aggregate delta when the hash is computed
GetHashReflectsAggregate ==
    (lastOp.name = "GetHash" /\ lastOp.outcome = "ok") =>
        /\ lastOp.call.hash = RootHash(stateCF, stateDelta)
        /\ workingSet = stateDelta

\* C5: once the batch a block was staged into is committed,
\* FetchStateDeltaFromDB of that block returns a delta equal by content to
\* the aggregate delta as it stood at staging
StagedDeltaRoundTrips ==
    (lastOp.name = "CommitBatch" /\ lastOp.staged.blockNumber >= 0) =>
        FetchStateDeltaFromDB(lastOp.staged.blockNumber, FALSE) =
            [delta |-> lastOp.staged.stateDelta, err |-> FALSE]

\* the committed block was staged while the aggregate delta held a delete,
\* and the aggregate delta has been cleared and refilled since
StagedDeltaRoundTripsWitness ==
    /\ lastOp.name = "CommitBatch"
    /\ lastOp.staged.blockNumber = MaxBlock
    /\ lastOp.staged.stateDelta[K1] = Deleted
    /\ stateDelta[K1] = "v1"
    /\ FetchStateDeltaFromDB(MaxBlock, FALSE).delta[K1] = Deleted

\* the history operations of a batch
HistoryOps(batch) == SelectSeq(batch, LAMBDA op : op.op # "PutState")

\* C6: staging block n >= historyStateDeltaSize puts the entry of n and
\* deletes the entry of n - historyStateDeltaSize in the same batch, and once
\* that batch is committed FetchStateDeltaFromDB(n - historyStateDeltaSize)
\* finds nothing and reports no error; staging a block below
\* historyStateDeltaSize stages no deletion, and its commit removes no entry
RetentionWindow ==
    /\ lastOp.name = "AddChangesForPersistence" =>
        LET n == lastOp.blockNumber
            hist == HistoryOps(writeBatch)
        IN  /\ hist[1].op = "PutDelta"
            /\ hist[1].key = encodeStateDeltaKey(n)
            /\ IF n >= historyStateDeltaSize
               THEN /\ Len(hist) = 2
                    /\ hist[2] =
                        [op |-> "DelDelta",
                         key |-> encodeStateDeltaKey(
                                    n - historyStateDeltaSize)]
               ELSE Len(hist) = 1
    /\ (lastOp.name = "CommitBatch" /\ lastOp.staged.blockNumber >= 0) =>
        LET n == lastOp.staged.blockNumber
        IN  IF n >= historyStateDeltaSize
            THEN FetchStateDeltaFromDB(n - historyStateDeltaSize, FALSE) =
                    [delta |-> NilDelta, err |-> FALSE]
            ELSE lastOp.removed = {}

\* the commit of block n removed the entry of n - historyStateDeltaSize from
\* the log, and the log holds the entry of n
RetentionWindowWitness ==
    /\ lastOp.name = "CommitBatch"
    /\ lastOp.staged.blockNumber >= historyStateDeltaSize
    /\ \E dbkey \in lastOp.removed :
            decodeStateDeltaKey(dbkey) =
                lastOp.staged.blockNumber - historyStateDeltaSize
    /\ encodeStateDeltaKey(lastOp.staged.blockNumber) \in DOMAIN stateDeltaCF

\* C7: right after ClearInMemoryChanges the aggregate delta and the
\* tx-delta-hash map are empty and every uncommitted read returns the
\* persisted value (no transaction has begun since the clear)
ClearLeavesOnlyPersisted ==
    lastOp.name = "ClearInMemoryChanges" =>
        /\ IsEmpty(stateDelta)
        /\ DOMAIN txStateDeltaHash = {}
        /\ \A ck \in KeySpace :
                Get(ck[1], ck[2], FALSE, FALSE).value =
                    StateImplGet(ck[1], ck[2])

\* C8: TxBegin while a transaction is in flight, TxFinish with an id other
\* than currentTxUUID, and Set or Delete with no transaction in flight abort
\* and change nothing of the manager; a TxBegin that returns goes from no
\* transaction in flight to one in flight, and a TxFinish that returns goes
\* from one in flight to none
ProtocolViolationsAbort ==
    [][ /\ \A txUUID \in TxUUIDs :
                TxBegin(txUUID) =>
                    IF txInProgress
                    THEN aborted' /\ UNCHANGED mgrVars
                    ELSE ~aborted' /\ ~txInProgress /\ txInProgress'
        /\ \A txUUID \in TxUUIDs, txSuccessful \in BOOLEAN :
                TxFinish(txUUID, txSuccessful) =>
                    IF txUUID # currentTxUUID
                    THEN aborted' /\ UNCHANGED mgrVars
                    ELSE ~aborted' /\ txInProgress /\ ~txInProgress'
        /\ \A ck \in KeySpace, value \in Values :
                Set(ck[1], ck[2], value) =>
                    IF ~txInProgress
                    THEN aborted' /\ UNCHANGED mgrVars
                    ELSE ~aborted'
        /\ \A ck \in KeySpace :
                Delete(ck[1], ck[2]) =>
                    IF ~txInProgress
                    THEN aborted' /\ UNCHANGED mgrVars
                    ELSE ~aborted'
      ]_vars

\* C9: Get with committed = TRUE returns the persisted value of the key, or
\* the store's error, whatever the in-memory deltas hold; the write of a
\* transaction that has just finished successfully is what committed = FALSE
\* returns
CommittedReadsOnlyPersisted ==
    /\ \A ck \in KeySpace :
        /\ Get(ck[1], ck[2], TRUE, FALSE) =
                [value |-> stateCF[ck], err |-> FALSE]
        /\ Get(ck[1], ck[2], TRUE, TRUE) = [value |-> Nil, err |-> TRUE]
    /\ (lastOp.name = "TxFinish" /\ lastOp.outcome = "merged") =>
        \A ck \in KeySpace :
            lastOp.delta[ck] # NoEntry =>
                Get(ck[1], ck[2], FALSE, FALSE).value =
                    GetValue(lastOp.delta[ck])

\* a finished transaction's "v1" is read with committed = FALSE while
\* committed = TRUE still finds no value
CommittedReadsOnlyPersistedWitness ==
    /\ lastOp.name = "TxFinish"
    /\ lastOp.outcome = "merged"
    /\ lastOp.delta[K1] = "v1"
    /\ Get("cc1", "k1", FALSE, FALSE).value = "v1"
    /\ Get("cc1", "k1", TRUE, FALSE).value = Nil

\* every operation of a committed batch is in storage
Landed(batch) ==
    \A i \in 1..Len(batch) :
        LET op == batch[i]
        IN  IF op.op = "PutState"
            THEN \A ck \in KeySpace :
                    stateCF[ck] = IF op.delta[ck] = NoEntry
                                  THEN lastOp.before.stateCF[ck]
                                  ELSE GetValue(op.delta[ck])
            ELSE IF op.op = "PutDelta"
            THEN /\ op.key \in DOMAIN stateDeltaCF
                 /\ stateDeltaCF[op.key] = op.value
            ELSE op.key \notin DOMAIN stateDeltaCF

\* C10: AddChangesForPersistence leaves the persisted state entries, the
\* history log, the aggregate delta and the tx-delta-hash map as they were;
\* storage changes only in the step that commits the batch, and that step
\* lands every staged operation
StagingOnly ==
    /\ [](lastOp.name = "AddChangesForPersistence" =>
            Durable = lastOp.before)
    /\ [](lastOp.name = "CommitBatch" => Landed(lastOp.batch))
    /\ [][(stateCF' # stateCF \/ stateDeltaCF' # stateDeltaCF) => CommitBatch]_vars

\* a block is staged whose delete of a persisted key is not yet in storage
StagingOnlyWitness ==
    /\ lastOp.name = "AddChangesForPersistence"
    /\ writeBatch # <<>>
    /\ stateDelta[K1] = Deleted
    /\ workingSet[K1] = Deleted
    /\ stateCF[K1] = "v1"
    /\ encodeStateDeltaKey(lastOp.blockNumber) \notin DOMAIN stateDeltaCF

\* C11: right after DeleteState the aggregate delta, the tx-delta-hash map
\* and the current transaction's delta are empty, no transaction is in
\* flight, the dirty flag is clear and the working set is discarded; every
\* persisted state entry is deleted unless the store reported an error
DeleteStateClearsAll ==
    lastOp.name = "DeleteState" =>
        /\ IsEmpty(stateDelta)
        /\ DOMAIN txStateDeltaHash = {}
        /\ IsEmpty(currentTxStateDelta)
        /\ ~txInProgress
        /\ ~updateStateImpl
        /\ workingSet = ClearWorkingSet
        /\ lastOp.outcome = "ok" => \A ck \in KeySpace : stateCF[ck] = Nil

\* the delta a GetHash or an AddChangesForPersistence issued now would have
\* in the store's working set once it has prepared
PreparedWorkingSet == IF updateStateImpl THEN stateDelta ELSE workingSet

\* C12: ApplyStateDelta writes the delta's sets and deletes to the persisted
\* state entries in the step itself (unless the write fails), leaves
\* currentTxUUID, currentTxStateDelta, the aggregate delta, the tx-delta-hash
\* map, the dirty flag, the history log and the caller's batch unchanged, and
\* a later GetHash returns the hash, and the batch of a later
\* AddChangesForPersistence commits the state entries, of the persisted state
\* with the working set they would have had without the call
ApplyStateDeltaBypasses ==
    [][ \A delta \in Deltas, writeErr \in BOOLEAN :
            ApplyStateDelta(delta, writeErr) =>
                /\ ~writeErr => stateCF' = Overlay(stateCF, delta)
                /\ UNCHANGED <<mgrVars, stateDeltaCF, writeBatch>>
                /\ RootHash(stateCF', PreparedWorkingSet') =
                        RootHash(stateCF', PreparedWorkingSet)
                /\ Overlay(stateCF', PreparedWorkingSet') =
                        Overlay(stateCF', PreparedWorkingSet)
      ]_vars

\* C13: Get with committed = FALSE returns the current transaction's entry
\* for the key if it has one (nil for a delete), else the aggregate delta's
\* entry if it has one, else what the store returns, its error included; a
\* TxFinish that merges leaves in the aggregate delta, key by key, the
\* transaction's entry where it has one and the earlier entry elsewhere, and
\* nothing but a merging TxFinish, ClearInMemoryChanges and DeleteState
\* changes the aggregate delta
ReadPrecedence ==
    /\ [](\A ck \in KeySpace, dbErr \in BOOLEAN :
            Get(ck[1], ck[2], FALSE, dbErr) =
                IF currentTxStateDelta[ck] # NoEntry
                THEN [value |-> IF currentTxStateDelta[ck] = Deleted THEN Nil
                                ELSE currentTxStateDelta[ck],
                      err |-> FALSE]
                ELSE IF stateDelta[ck] # NoEntry
                THEN [value |-> IF stateDelta[ck] = Deleted THEN Nil
                                ELSE stateDelta[ck],
                      err |-> FALSE]
                ELSE IF dbErr THEN [value |-> Nil, err |-> TRUE]
                ELSE [value |-> stateCF[ck], err |-> FALSE])
    /\ [][stateDelta' # stateDelta =>
            \/ /\ lastOp'.name = "TxFinish"
               /\ lastOp'.outcome = "merged"
               /\ \A ck \in KeySpace :
                    stateDelta'[ck] = IF currentTxStateDelta[ck] # NoEntry
                                      THEN currentTxStateDelta[ck]
                                      ELSE stateDelta[ck]
            \/ /\ lastOp'.name \in {"ClearInMemoryChanges", "DeleteState"}
               /\ IsEmpty(stateDelta')]_vars

\* the three tiers disagree on a key: the current transaction deleted it, an
\* earlier transaction of the block set "v1" and the persisted value is "v2"
ReadPrecedenceWitness ==
    /\ currentTxStateDelta[K1] = Deleted
    /\ stateDelta[K1] = "v1"
    /\ stateCF[K1] = "v2"
    /\ Get("cc1", "k1", FALSE, FALSE) = [value |-> Nil, err |-> FALSE]

\* C14: whenever no transaction is in flight the current transaction's delta
\* is empty; every TxFinish that returns, successful or not, leaves it empty
\* and currentTxUUID cleared; and the id of a transaction in flight is never
\* replaced by another id, only cleared by the TxFinish that ends it
TransactionScoping ==
    /\ [](~txInProgress => IsEmpty(currentTxStateDelta))
    /\ []((lastOp.name = "TxFinish" /\ lastOp.outcome # "panic") =>
            (IsEmpty(currentTxStateDelta) /\ currentTxUUID = ""))
    /\ [][(txInProgress /\ currentTxUUID' # currentTxUUID) =>
            (currentTxUUID' = "" /\ lastOp'.name = "TxFinish"
                /\ lastOp'.txUUID = currentTxUUID)]_vars

\* a transaction that had deleted a key has just been finished as failed
TransactionScopingWitness ==
    /\ lastOp.name = "TxFinish"
    /\ lastOp.outcome = "discarded"
    /\ lastOp.txUUID = "t1"
    /\ lastOp.delta[K1] = Deleted
    /\ ~txInProgress
    /\ IsEmpty(currentTxStateDelta)

\* C15: the tx-delta-hash map changes only by being emptied in
\* ClearInMemoryChanges (or DeleteState), or by a TxFinish with
\* txSuccessful = TRUE that ends the transaction in flight and records, under
\* that transaction's id, the hash of its delta or, for an empty delta, the
\* nil marker; so every key is the id of a transaction begun and successfully
\* finished since the last clear, and a failed or never-run transaction adds
\* no key
TxHashKeysAreFinishedTxs ==
    [][txStateDeltaHash' # txStateDeltaHash =>
        \/ /\ lastOp'.name \in {"ClearInMemoryChanges", "DeleteState"}
           /\ DOMAIN txStateDeltaHash' = {}
        \/ /\ txInProgress
           /\ lastOp'.name = "TxFinish"
           /\ lastOp'.outcome \in {"merged", "no-op"}
           /\ lastOp'.txUUID = currentTxUUID
           /\ DOMAIN txStateDeltaHash' =
                    DOMAIN txStateDeltaHash \cup {currentTxUUID}
           /\ \A t \in DOMAIN txStateDeltaHash' :
                txStateDeltaHash'[t] =
                    IF t # currentTxUUID THEN txStateDeltaHash[t]
                    ELSE IF IsEmpty(currentTxStateDelta) THEN NilHash
                    ELSE DeltaCryptoHash(currentTxStateDelta)]_vars

\* C16: whenever the dirty flag is clear the store's working set holds
\* exactly the content of the aggregate delta
DirtyFlagInvariant ==
    ~updateStateImpl => workingSet = stateDelta

\* the history keys of the last historyStateDeltaSize blocks up to n
HistoryWindow(n) ==
    {encodeStateDeltaKey(b) :
        b \in {c \in 0..n : c + historyStateDeltaSize > n}}

\* C17 as stated: whatever blocks have been staged and committed, the
\* history log holds at most historyStateDeltaSize entries
HistoryLogBounded ==
    Cardinality(DOMAIN stateDeltaCF) <= historyStateDeltaSize

\* C17 for blocks committed in order: when the batch of block n is committed
\* onto a log that holds exactly the last historyStateDeltaSize blocks before
\* n (all of them while there are fewer, none for n = 0), the log then holds
\* exactly the last historyStateDeltaSize blocks up to n, so at most
\* historyStateDeltaSize entries
HistoryLogBoundedInOrder ==
    (/\ lastOp.name = "CommitBatch"
     /\ lastOp.staged.blockNumber >= 0
     /\ DOMAIN lastOp.before.stateDeltaCF =
            HistoryWindow(lastOp.staged.blockNumber - 1)) =>
        /\ DOMAIN stateDeltaCF = HistoryWindow(lastOp.staged.blockNumber)
        /\ Cardinality(DOMAIN stateDeltaCF) <= historyStateDeltaSize

\* the log was full with the blocks before the highest block, and that
\* block's commit has replaced the oldest entry
HistoryLogBoundedInOrderWitness ==
    /\ lastOp.name = "CommitBatch"
    /\ lastOp.staged.blockNumber = MaxBlock
    /\ DOMAIN lastOp.before.stateDeltaCF = HistoryWindow(MaxBlock - 1)
    /\ Cardinality(DOMAIN lastOp.before.stateDeltaCF) = historyStateDeltaSize
    /\ Cardinality(DOMAIN stateDeltaCF) = historyStateDeltaSize
    /\ lastOp.removed # {}

\* what Set and Delete must leave alone
WriteFrame ==
    UNCHANGED <<stateDelta, currentTxUUID, txStateDeltaHash, updateStateImpl,
                workingSet, stateCF, stateDeltaCF, writeBatch>>

\* C18: with a transaction in flight, Set and Delete record the write in the
\* current transaction's delta and change neither the aggregate delta, the
\* tx-delta-hash map, the dirty flag, the working set, the persisted entries,
\* the history log nor the pending batch; the aggregate delta takes a new
\* entry only in the step of a TxFinish with txSuccessful = TRUE, and the
\* entry is that transaction's write
WritesStayInTransaction ==
    [][ /\ \A ck \in KeySpace, value \in Values :
                (txInProgress /\ Set(ck[1], ck[2], value)) =>
                    /\ currentTxStateDelta' =
                            [currentTxStateDelta EXCEPT ![ck] = value]
                    /\ WriteFrame
        /\ \A ck \in KeySpace :
                (txInProgress /\ Delete(ck[1], ck[2])) =>
                    /\ currentTxStateDelta' =
                            [currentTxStateDelta EXCEPT ![ck] = Deleted]
                    /\ WriteFrame
        /\ \A ck \in KeySpace :
                (stateDelta'[ck] # stateDelta[ck]
                    /\ stateDelta'[ck] # NoEntry) =>
                    /\ lastOp'.name = "TxFinish"
                    /\ lastOp'.outcome = "merged"
                    /\ stateDelta'[ck] = currentTxStateDelta[ck]
      ]_vars

\* a Set has just written "v1" in a transaction while the aggregate delta,
\* the working set and the pending batch hold an earlier delete of the key
WritesStayInTransactionWitness ==
    /\ lastOp.name = "Set"
    /\ currentTxStateDelta[K1] = "v1"
    /\ stateDelta[K1] = Deleted
    /\ workingSet[K1] = Deleted
    /\ writeBatch # <<>>

\* C19: when ClearInMemoryChanges directly follows the commit of a batch,
\* with no transaction in flight and the aggregate delta at the commit still
\* the one that was staged, every read after the clear, with committed FALSE
\* or TRUE, returns what the uncommitted read returned before the staging:
\* the staged aggregate delta's entry for the key, else the value persisted
\* before the commit
StageCommitClearPreservesReads ==
    [][(/\ lastOp.name = "CommitBatch"
        /\ lastOp'.name = "ClearInMemoryChanges"
        /\ lastOp.staged.blockNumber >= 0
        /\ lastOp.before.stateDelta = lastOp.staged.stateDelta
        /\ ~txInProgress) =>
            \A ck \in KeySpace :
                LET before == Overlay(lastOp.before.stateCF,
                                      lastOp.staged.stateDelta)[ck]
                IN  /\ Get(ck[1], ck[2], FALSE, FALSE)' =
                            [value |-> before, err |-> FALSE]
                    /\ Get(ck[1], ck[2], TRUE, FALSE)' =
                            [value |-> before, err |-> FALSE]
      ]_vars

\* C20: the writes of a transaction in flight, or of one finished with
\* txSuccessful = FALSE, reach neither the store's working set, nor the hash
\* a GetHash returns, nor an operation of the pending batch, nor an entry of
\* the history log, nor the persisted entries, whenever GetHash and
\* AddChangesForPersistence are called; the aggregate delta holds none of
\* them either
UnmergedWritesStayOut ==
    /\ ~Unmerged(stateDelta)
    /\ ~Unmerged(workingSet)
    /\ (lastOp.name = "GetHash" /\ lastOp.outcome = "ok") =>
            \A ck \in KeySpace : lastOp.call.hash[2][ck] # UnmergedValue
    /\ \A i \in 1..Len(writeBatch) :
            /\ writeBatch[i].op = "PutState" => ~Unmerged(writeBatch[i].delta)
            /\ writeBatch[i].op = "PutDelta" =>
                    ~Unmerged(Unmarshal(writeBatch[i].value))
    /\ \A dbkey \in DOMAIN stateDeltaCF :
            ~Unmerged(Unmarshal(stateDeltaCF[dbkey]))
    /\ \A ck \in KeySpace : stateCF[ck] # UnmergedValue

\* a block has just been staged while a transaction that has written the
\* unmerged value is in flight, after another such transaction has failed
\* and a merged "v1" is in the working set and the batch
UnmergedWritesStayOutWitness ==
    /\ lastOp.name = "AddChangesForPersistence"
    /\ txInProgress
    /\ currentTxStateDelta[K1] = UnmergedValue
    /\ stateDelta[K1] = "v1"
    /\ workingSet[K1] = "v1"
    /\ writeBatch # <<>>
    /\ stateCF[K1] = Nil

====
